---- MODULE Spec2Model ----
(***************************************************************************)
(* A model of saaslet.js (src/saaslet.js, first bundle, lines 1-645):      *)
(* the EventEmitter, the request pipeline (get/post/sendRequest) with the  *)
(* User account client, and the Saaslet widget factory with its inbound    *)
(* message handler.                                                        *)
(*                                                                         *)
(* JavaScript values are encoded as follows.  An optional number (a        *)
(* listener's order) is the empty tuple for undefined and <<n>> for n.     *)
(* Object identity (a listener registration, a widget) is a natural        *)
(* number handed out by a counter.  A thrown exception is recorded in err. *)
(***************************************************************************)
EXTENDS Integers, Sequences, FiniteSets, TLC

\* ------------------------------------------------------------------ bounds
\* registrations created over a run (object identities 1..MaxRegs)
MaxRegs == 3
\* largest numeric listener order
MaxOrder == 2
\* direct emit calls by the application over a run
MaxEmits == 2
\* account operations called over a run
MaxReqs == 2
\* listeners the application registers while it uses the account client
MaxUserRegs == 1
\* extra deliveries of the final ready state by a transport object that
\* repeats it (SpecRedeliver only)
MaxRedeliver == 1
\* widgets created over a run, by all Saaslet instances together
MaxWidgets == 2
\* load events an iframe fires
MaxLoads == 1
\* setConfig/setCss calls the application makes on one widget
MaxPosts == 1
\* account operations called over a run against the API server
MaxSessionReqs == 4
\* account operations called one after the other, each awaited
MaxAwaited == 5

\* ------------------------------------------------------------ value domains
Events == {"signup", "login", "logout"}
Fns == {"f", "g"}
Ctxs == {"undefined", "ctxA"}
\* the callback/context pairs the application registers: one callback with
\* two contexts, and a second callback
Callbacks == {<<"f", "undefined">>, <<"f", "ctxA">>, <<"g", "undefined">>}
Undefined == <<>>
Orders == {Undefined} \cup {<<n>> : n \in 1..MaxOrder}
\* what a listener returns: only the literal false stops the dispatch
Rets == {"false", "undefined", "0"}

VARIABLES
    listener,       \* EventEmitter.listener: event name -> array of registrations
    nextReg,        \* identity of the next registration object
    em,             \* the running emit call: its event, index i and last
    emission,       \* history of the current/last emit call: its event, the bucket
                    \*   and the removed set when it began, the identities invoked,
                    \*   and whether a literal false or a throw ended it; forgotten
                    \*   at the application's next on or off
    removed,        \* history: the registrations that matched an off call so far,
                    \*   each as its identity and event
    halted,         \* history: events of which an emission was stopped by false
    emitted,        \* history: emit calls made by the account client, per event
    userEmits,      \* history: number of emit calls made by the application
    reqs,           \* the requests made so far: transport object, promise, result
    session,        \* the API server: whether the browser has a session with it
    served,         \* the API server's answers that are on their way: request -> answer
    store,          \* the API server: the data of the user, key -> value
    widgets,        \* every Widget object created so far, by identity
    activeWidgets,  \* per Saaslet instance: activeWidgets, widget id -> Widget
    widgetCount,    \* per Saaslet instance: widgetCount
    delivered,      \* history: the window message the last step delivered, if any
    err             \* the exception the last operation threw ("none": it returned)

busVars == <<listener, nextReg, em, emission, removed, halted, emitted, userEmits>>
srvVars == <<session, served, store>>
reqVars == <<reqs, srvVars>>
widVars == <<widgets, activeWidgets, widgetCount, delivered>>
vars == <<busVars, reqVars, widVars, err>>

\* ------------------------------------------------------------ EventEmitter
\* a.order > b.order in JavaScript: false when either side is undefined
Gt(a, b) == a # Undefined /\ b # Undefined /\ a[1] > b[1]

\* the comparator handed to Array.prototype.sort
Compare(a, b) == IF Gt(a.order, b.order) THEN 1 ELSE 0 - 1

Perms(n) == {p \in [1..n -> 1..n] : \A i, j \in 1..n : i # j => p[i] # p[j]}

\* The comparator never answers 0.  On registrations whose orders are
\* numbers and pairwise different it is a strict total order and every sort
\* returns the ascending array.  Otherwise it contradicts itself
\* (Compare(a,b) = Compare(b,a) = -1) and the resulting order is
\* implementation-defined: any permutation of the array.
ComparatorConsistent(s) ==
    \A i, j \in 1..Len(s) : i # j => Compare(s[i], s[j]) # Compare(s[j], s[i])

\* an array left as push made it
Unsorted(s) == {s}

SortResults(s) ==
    LET all == {[i \in 1..Len(s) |-> s[p[i]]] : p \in Perms(Len(s))}
    IN  IF ComparatorConsistent(s)
        THEN {t \in all : \A i, j \in 1..Len(t) : i < j => Compare(t[i], t[j]) < 0}
        ELSE all

Registration(eventName, fn, context, order, id) ==
    [eventName |-> eventName, fn |-> fn, context |-> context, order |-> order, id |-> id]

\* on( eventName, fn, context, order ): the listener maps it can leave
OnResults(L, eventName, fn, context, order, id) ==
    LET bucket == IF eventName \in DOMAIN L THEN L[eventName] ELSE <<>>
        pushed == Append(bucket, Registration(eventName, fn, context, order, id))
    IN  {[e \in DOMAIN L \cup {eventName} |-> IF e = eventName THEN s ELSE L[e]]
            : s \in SortResults(pushed)}

\* a test of the callback alone
MatchesFn(r, fn, context) == r.fn = fn

\* the test of off: callback and context are both identical
Matches(r, fn, context) == r.fn = fn /\ r.context = context

\* the while( i-- ) loop of off: splice every matching slot, from the end
RECURSIVE SpliceMatching(_, _, _, _)
SpliceMatching(s, i, fn, context) ==
    IF i = 0 THEN s
    ELSE IF Matches(s[i], fn, context)
         THEN SpliceMatching(SubSeq(s, 1, i - 1) \o SubSeq(s, i + 1, Len(s)), i - 1, fn, context)
         ELSE SpliceMatching(s, i - 1, fn, context)

\* a forward scan that steps over the slot that moved into the spliced place
RECURSIVE SpliceForward(_, _, _, _)
SpliceForward(s, i, fn, context) ==
    IF i > Len(s) THEN s
    ELSE IF Matches(s[i], fn, context)
         THEN SpliceForward(SubSeq(s, 1, i - 1) \o SubSeq(s, i + 1, Len(s)), i + 1, fn, context)
         ELSE SpliceForward(s, i + 1, fn, context)

OffForward(L, eventName, fn, context) ==
    IF eventName \notin DOMAIN L THEN L
    ELSE LET s == SpliceForward(L[eventName], 1, fn, context)
         IN  IF Len(s) = 0
             THEN [e \in DOMAIN L \ {eventName} |-> L[e]]
             ELSE [L EXCEPT ![eventName] = s]

\* off( eventName, fn, context )
OffResult(L, eventName, fn, context) ==
    IF eventName \notin DOMAIN L THEN L
    ELSE LET s == SpliceMatching(L[eventName], Len(L[eventName]), fn, context)
         IN  IF Len(s) = 0
             THEN [e \in DOMAIN L \ {eventName} |-> L[e]]
             ELSE [L EXCEPT ![eventName] = s]

\* hasListeners( eventName ), as a truth value
\* this.listener = {} is a plain object: a name it does not hold itself is
\* read from Object.prototype.  The functions found there and their length.
InheritedLength == [constructor |-> 1, hasOwnProperty |-> 1, toString |-> 0, valueOf |-> 0]

\* hasListeners( eventName ): this.listener[ eventName ] &&
\* this.listener[ eventName ].length > 0, taken as a truth value
HasListeners(L, eventName) ==
    IF eventName \in DOMAIN L THEN Len(L[eventName]) > 0
    ELSE eventName \in DOMAIN InheritedLength /\ InheritedLength[eventName] > 0

\* the registrations of eventName that an off call names
Matching(L, eventName, fn, context) ==
    IF eventName \notin DOMAIN L THEN {}
    ELSE {[id |-> L[eventName][k].id, eventName |-> eventName] :
            k \in {k \in 1..Len(L[eventName]) : Matches(L[eventName][k], fn, context)}}

Bucket(L, eventName) == IF eventName \in DOMAIN L THEN L[eventName] ELSE <<>>

BucketIds(L, eventName) == {Bucket(L, eventName)[k].id : k \in 1..Len(Bucket(L, eventName))}

Ids(regs) == {r.id : r \in regs}

IdsOf(s) == [k \in 1..Len(s) |-> s[k].id]

NoEmission ==
    [eventName |-> "", start |-> <<>>, removedAtStart |-> {}, calls |-> <<>>, stop |-> ""]

\* the history record of an emit call that begins now
Begin(eventName) ==
    [eventName |-> eventName, start |-> IdsOf(Bucket(listener, eventName)),
     removedAtStart |-> removed, calls |-> <<>>, stop |-> ""]

NoEmit == [active |-> FALSE, eventName |-> "", i |-> 0, last |-> 0, cont |-> 0]

Idle == ~em.active

\* ---------------------------------------------------------------- actions
\* what a listener does while it runs: nothing, on(...), off(...) or throw
Effects(regs) ==
    {[k |-> "none"], [k |-> "throw"]}
    \cup {[k |-> "off", eventName |-> x[1], fn |-> x[2], context |-> x[3]] : x \in regs}
    \cup {[k |-> "on", eventName |-> x[1], fn |-> x[2], context |-> x[3], order |-> x[4]] :
            x \in regs}

EffectResults(L, eff, id) ==
    CASE eff.k = "off" -> {OffResult(L, eff.eventName, eff.fn, eff.context)}
      [] eff.k = "on" -> OnResults(L, eff.eventName, eff.fn, eff.context, eff.order, id)
      [] OTHER -> {L}

\* saaslet.on( eventName, fn, context, order ) called by the application
On(eventName, fn, context, order) ==
    /\ Idle
    /\ nextReg <= MaxRegs
    /\ listener' \in OnResults(listener, eventName, fn, context, order, nextReg)
    /\ nextReg' = nextReg + 1
    /\ emission' = NoEmission
    /\ err' = "none"
    /\ UNCHANGED <<em, removed, halted, emitted, userEmits, reqVars, widVars>>

\* saaslet.off( eventName, fn, context ) called by the application
Off(eventName, fn, context) ==
    /\ Idle
    /\ listener' = OffResult(listener, eventName, fn, context)
    /\ removed' = removed \cup Matching(listener, eventName, fn, context)
    /\ emission' = NoEmission
    /\ err' = "none"
    /\ UNCHANGED <<nextReg, em, halted, emitted, userEmits, reqVars, widVars>>

\* the head of emit: return at once without a bucket, else enter the loop
\* with i = 0 and last = null
EmitEnter(eventName, cont) ==
    IF eventName \in DOMAIN listener /\ Len(listener[eventName]) > 0
    THEN [active |-> TRUE, eventName |-> eventName, i |-> 0, last |-> 0, cont |-> cont]
    ELSE NoEmit

\* an index that steps over the slot after the one just invoked
SkipsNext(L, eventName, i, last) == i + 2

\* an index that moves on after every invocation
AlwaysAdvance(L, eventName, i, last) == i + 1

\* i after one pass of the loop body: advanced only when the slot just
\* invoked is still at index i
NextIndex(L, eventName, i, last) ==
    IF eventName \in DOMAIN L /\ i < Len(L[eventName]) /\ L[eventName][i + 1].id = last
    THEN i + 1
    ELSE i

\* the loop condition: the bucket exists and has a slot at index i
LoopCondition(L, eventName, i) == eventName \in DOMAIN L /\ i < Len(L[eventName])

\* ------------------------------------------------------- JavaScript values
\* Every value is a record tagged by t, so that values of different types
\* can be compared.
UndefinedV == [t |-> "undefined"]
NullV == [t |-> "null"]
Str(x) == [t |-> "string", s |-> x]
Bool(b) == [t |-> "boolean", b |-> b]
Obj(fields) == [t |-> "object", f |-> fields]
EmptyArray == [t |-> "array", items |-> <<>>]
Thrown(name) == [t |-> "throw", error |-> name]
Envelope(status, data) == [t |-> "envelope", status |-> status, data |-> data]

\* v[name] / v.name: a TypeError on null and undefined, undefined for a
\* missing property; a throw on the way propagates
Prop(v, name) ==
    CASE v.t = "throw" -> v
      [] v.t \in {"null", "undefined"} -> Thrown("TypeError")
      [] v.t = "object" /\ name \in DOMAIN v.f -> v.f[name]
      [] v.t = "envelope" /\ name = "data" -> v.data
      [] OTHER -> UndefinedV

\* a || b for the values used here (objects and arrays are truthy)
OrElse(a, b) == IF a.t \in {"undefined", "null"} THEN b ELSE a

\* the response texts the server and the network deliver
BodyEmpty == ""
BodyHtml == "<html>"
BodyNull == "null"
BodyUserId == "{\"userId\":\"u1\"}"
BodyExists == "{\"error\":\"user already exists\"}"
BodyNoSession == "{\"error\":\"no session found\"}"
BodyNotFound == "{\"error\":\"not found\"}"
BodyObject == "{}"
BodyUser == "{\"user\":{\"id\":\"u1\",\"email\":{\"address\":\"a@saaslet.baz\"},\"data\":{\"key-a\":\"val-a\"}}}"

UserObject ==
    Obj([id |-> Str("u1"),
         email |-> Obj([address |-> Str("a@saaslet.baz")]),
         data |-> Obj("key-a" :> Str("val-a"))])

\* the keys and values the application stores with set( key, value )
Keys == {"key-a", "key-b"}
ValueOf(key) == IF key = "key-a" THEN "val-a" ELSE "val-b"
\* the maps key -> value the user's data can be
Stores == {[k \in K |-> ValueOf(k)] : K \in SUBSET Keys}

\* JSON text of a map of strings
DataJson(D) ==
    CASE DOMAIN D = {} -> "{}"
      [] DOMAIN D = {"key-a"} -> "{\"key-a\":\"" \o D["key-a"] \o "\"}"
      [] DOMAIN D = {"key-b"} -> "{\"key-b\":\"" \o D["key-b"] \o "\"}"
      [] OTHER -> "{\"key-a\":\"" \o D["key-a"] \o "\",\"key-b\":\"" \o D["key-b"] \o "\"}"

\* the data endpoint's answer for a user whose data is D
UserJson(D) ==
    "{\"user\":{\"id\":\"u1\",\"email\":{\"address\":\"a@saaslet.baz\"},\"data\":"
        \o DataJson(D) \o "}}"

UserWith(D) ==
    Obj([id |-> Str("u1"),
         email |-> Obj([address |-> Str("a@saaslet.baz")]),
         data |-> Obj([k \in DOMAIN D |-> Str(D[k])])])

\* JSON.parse( text ): the value, or a thrown SyntaxError
JSONParse(text) ==
    CASE text = BodyNull -> NullV
      [] text = BodyUserId -> Obj([userId |-> Str("u1")])
      [] text = BodyExists -> Obj([error |-> Str("user already exists")])
      [] text = BodyNoSession -> Obj([error |-> Str("no session found")])
      [] text = BodyUser -> Obj([user |-> UserObject])
      [] text = BodyNotFound -> Obj([error |-> Str("not found")])
      [] text = BodyObject -> Obj(<<>>)
      [] \E D \in Stores : text = UserJson(D) ->
            Obj([user |-> UserWith(CHOOSE D \in Stores : text = UserJson(D))])
      [] OTHER -> Thrown("SyntaxError")

\* ------------------------------------------------------------- Transport
\* XMLHttpFactories: the positions of the list; the environment decides
\* which of them construct an object instead of throwing
XMLHttpFactories == 1..6

\* createXMLHTTPObject(): the first factory that does not throw, or false
\* (encoded 0) when every one throws
CreateXMLHTTPObject(working) ==
    IF working = {} THEN 0
    ELSE CHOOSE i \in working : \A j \in working : i <= j

PendingPromise == [state |-> "pending", value |-> UndefinedV, settles |-> 0]
NoPromise == [state |-> "none", value |-> UndefinedV, settles |-> 0]

\* a promise whose resolve and reject act on every call
SettleAgain(p, state, value) ==
    [state |-> state, value |-> value, settles |-> p.settles + 1]

\* promise.resolve( v ) / promise.reject( v ) of getPromise: the resolving
\* functions of a native promise act on their first call only
Settle(p, state, value) ==
    IF p.state = "pending"
    THEN [state |-> state, value |-> value, settles |-> p.settles + 1]
    ELSE p

\* ---------------------------------------------------------- Account client
PostOps == {"signup", "login", "logout", "set", "changeEmail", "changePassword"}
GetOps == {"get", "getAll", "isLoggedIn", "getInfo"}
\* transform functions that all emit their operation's name
EmitOpsAndReads == {"signup", "login", "logout", "get", "getAll", "getInfo"}

EmitOps == {"signup", "login", "logout"}
TransformOps == {"signup", "login", "logout", "get", "getAll", "getInfo"}

\* a set that posts the pair of the first key whatever key it was given
PostDataFirstKey(op, key) ==
    CASE op \in {"signup", "login"} -> "{\"email\":e,\"password\":p,\"appPublishableKey\":k}"
      [] op = "logout" -> "{}"
      [] op = "set" -> "{\"data\":{\"key-a\":\"val-a\"}}"
      [] OTHER -> ""

\* the second argument of sendRequest: JSON.stringify( data ) for post,
\* null (encoded "") for get
PostData(op, key) ==
    CASE op \in {"signup", "login"} -> "{\"email\":e,\"password\":p,\"appPublishableKey\":k}"
      [] op = "logout" -> "{}"
      [] op = "set" -> "{\"data\":{\"" \o key \o "\":\"" \o ValueOf(key) \o "\"}}"
      [] op = "changeEmail" -> "{\"email\":e,\"password\":p}"
      [] op = "changePassword" -> "{\"oldPassword\":o,\"newPassword\":n}"
      [] OTHER -> ""

\* a method chosen by whether the text reads as a falsy value
MethodOfValue(postData) ==
    IF postData \in {"", "null", "false", "0", "\"\""} THEN "GET" ELSE "POST"

\* const method = postData ? "POST" : "GET"
Method(postData) == IF postData # "" THEN "POST" ELSE "GET"

\* what the transform function returns after its emit call, or throws
TransformReturn(op, key, d) ==
    CASE op = "signup" -> Prop(Prop(d, "data"), "userId")
      [] op \in {"login", "logout"} -> d
      [] op = "get" -> Prop(Prop(Prop(Prop(d, "data"), "user"), "data"), key)
      [] op = "getAll" -> Prop(Prop(Prop(d, "data"), "user"), "data")
      [] op = "getInfo" ->
            LET user == Prop(Prop(d, "data"), "user")
                id == Prop(user, "id")
                email == Prop(Prop(user, "email"), "address")
                subs == Prop(user, "subscriptions")
            IN  IF id.t = "throw" THEN id
                ELSE IF email.t = "throw" THEN email
                ELSE Obj([id |-> id, email |-> email,
                          subscriptions |-> OrElse(subs, EmptyArray)])
      [] OTHER -> d

\* an isLoggedIn that answers true whenever the request has settled
FollowInnerTrue(q) ==
    IF q.op = "isLoggedIn" /\ q.promise.state # "pending"
    THEN [q EXCEPT !.outer = Settle(q.outer, "resolved", Bool(TRUE))]
    ELSE q

\* isLoggedIn's own promise follows the request's: then -> resolve( true ),
\* catch -> resolve( false )
FollowInner(q) ==
    IF q.op = "isLoggedIn" /\ q.promise.state # "pending"
    THEN [q EXCEPT !.outer = Settle(q.outer, "resolved", Bool(q.promise.state = "resolved"))]
    ELSE q

\* sendRequest( url, postData, transformFn ) up to its return, for the
\* transport object the factories give; header, credentialed and body are
\* what setRequestHeader and send were given
Send(op, key, postData, working) ==
    LET req == CreateXMLHTTPObject(working)
        base == [op |-> op, key |-> key, xhr |-> req, method |-> Method(postData),
                 postData |-> postData, withCredentials |-> FALSE, opened |-> FALSE,
                 header |-> "", credentialed |-> FALSE, body |-> "",
                 sent |-> FALSE, readyState |-> 0, status |-> 0, responseText |-> "",
                 finals |-> 0, transforms |-> 0,
                 promise |-> PendingPromise, returned |-> "promise",
                 outer |-> IF op = "isLoggedIn" THEN PendingPromise ELSE NoPromise]
    IN  IF req = 0
        THEN \* promise.reject( ... ); return;  -- the caller receives undefined,
             \* and isLoggedIn's executor throws on undefined.then
             [base EXCEPT
                !.promise = Settle(@, "rejected", Str("Could not create XMLHTTPObject")),
                !.returned = "undefined",
                !.outer = IF op = "isLoggedIn"
                          THEN Settle(@, "rejected", Thrown("TypeError"))
                          ELSE @]
        ELSE LET opened == [base EXCEPT !.withCredentials = TRUE, !.opened = TRUE,
                                         !.readyState = 1,
                                         !.header = "application/json"]
             IN  IF opened.readyState = 4
                 THEN [opened EXCEPT !.returned = "undefined"]
                 ELSE [opened EXCEPT !.sent = TRUE, !.body = postData,
                                     !.credentialed = opened.withCredentials]

\* the request of a user method: get( url, fn ) or post( url, data, fn )
SendRequest(op, key, working) == Send(op, key, PostData(op, key), working)

\* JSON.stringify( data ) for the values used here (the only object is the
\* empty one); undefined has no JSON text and gives undefined, encoded ""
JSONStringify(data) ==
    CASE data.t = "null" -> "null"
      [] data.t = "boolean" -> IF data.b THEN "true" ELSE "false"
      [] data.t = "number" -> ToString(data.n)
      [] data.t = "string" -> "\"" \o data.s \o "\""
      [] data.t = "array" -> "[]"
      [] data.t = "object" -> "{}"
      [] data.t = "undefined" -> ""

\* get( url ) and post( url, data ) themselves, without a transform
GetCall ==
    /\ Idle
    /\ Len(reqs) < MaxReqs
    /\ reqs' = Append(reqs, Send("get:", "", "", {1}))
    /\ err' = "none"
    /\ UNCHANGED <<busVars, widVars, srvVars>>

PostCall(data) ==
    /\ Idle
    /\ Len(reqs) < MaxReqs
    /\ reqs' = Append(reqs, Send("post:", "", JSONStringify(data), {1}))
    /\ err' = "none"
    /\ UNCHANGED <<busVars, widVars, srvVars>>

\* the body of transformFn after its emit call, then promise.resolve
FinishTransform(q) ==
    LET d == Envelope(q.status, JSONParse(q.responseText))
        result == TransformReturn(q.op, q.key, d)
    IN  IF result.t = "throw"
        THEN q
        ELSE FollowInner([q EXCEPT !.promise = Settle(@, "resolved", result)])

FinishError(q) ==
    LET result == TransformReturn(q.op, q.key, Envelope(q.status, JSONParse(q.responseText)))
    IN  IF result.t = "throw" THEN result.error ELSE "none"

\* an account operation called by the application: user.signup(...), ...
Call(op, key, working) ==
    /\ Idle
    /\ Len(reqs) < MaxReqs
    /\ reqs' = Append(reqs, SendRequest(op, key, working))
    /\ err' = "none"
    /\ UNCHANGED <<busVars, widVars, srvVars>>

\* a handler that goes on as soon as the headers are in
HeadersReceived(q) == q.readyState >= 2

\* the handler's test of req.readyState: it returns unless the state is 4
Complete(q) == q.readyState = 4

\* a handler that works on one promise shared by all requests: it settles
\* the first request's whichever request completed
HandleShared(r, q) ==
    /\ reqs' = [reqs EXCEPT ![1] = [q EXCEPT !.promise =
                    Settle(@, "resolved", Envelope(q.status, NullV))]]
    /\ err' = "none"
    /\ UNCHANGED <<busVars, widVars>>

\* req.onreadystatechange, run on request r whose transport object is q
Handle(r, q) ==
    LET parsed == JSONParse(q.responseText)
        event == q.op
    IN  IF ~Complete(q)
        THEN /\ reqs' = [reqs EXCEPT ![r] = q]
             /\ err' = "none"
             /\ UNCHANGED <<busVars, widVars>>
        ELSE IF parsed.t = "throw"
        THEN /\ reqs' = [reqs EXCEPT ![r] = q]
             /\ err' = parsed.error
             /\ UNCHANGED <<busVars, widVars>>
        ELSE IF q.status # 200 /\ q.status # 304
        THEN /\ reqs' = [reqs EXCEPT ![r] = FollowInner(
                    [q EXCEPT !.promise = Settle(@, "rejected", Envelope(q.status, parsed))])]
             /\ err' = "none"
             /\ UNCHANGED <<busVars, widVars>>
        ELSE IF q.op \notin TransformOps
        THEN /\ reqs' = [reqs EXCEPT ![r] = FollowInner(
                    [q EXCEPT !.promise = Settle(@, "resolved", Envelope(q.status, parsed))])]
             /\ err' = "none"
             /\ UNCHANGED <<busVars, widVars>>
        ELSE LET t == [q EXCEPT !.transforms = @ + 1]
             IN  IF q.op \in EmitOps
                 THEN \* this.parent.emit( event ) runs first
                      /\ emitted' = [emitted EXCEPT ![event] = @ + 1]
                      /\ emission' = Begin(event)
                      /\ em' = EmitEnter(event, r)
                      /\ IF em'.active
                         THEN reqs' = [reqs EXCEPT ![r] = t] /\ err' = "none"
                         ELSE reqs' = [reqs EXCEPT ![r] = FinishTransform(t)]
                              /\ err' = FinishError(t)
                      /\ UNCHANGED <<listener, nextReg, removed, halted, userEmits, widVars>>
                 ELSE /\ reqs' = [reqs EXCEPT ![r] = FinishTransform(t)]
                      /\ err' = FinishError(t)
                      /\ UNCHANGED <<busVars, widVars>>

\* the transport object of request r changes its ready state and notifies;
\* with the final state the response's status and text are there
Notify(r, rs, status, text) ==
    /\ Idle
    /\ r \in 1..Len(reqs)
    /\ reqs[r].sent
    /\ rs > reqs[r].readyState
    /\ UNCHANGED srvVars
    /\ IF rs = 4
       THEN Handle(r, [reqs[r] EXCEPT !.readyState = 4, !.status = status,
                                      !.responseText = text, !.finals = 1])
       ELSE Handle(r, [reqs[r] EXCEPT !.readyState = rs])

\* a transport object that notifies the final state once more
Redeliver(r) ==
    /\ Idle
    /\ r \in 1..Len(reqs)
    /\ reqs[r].readyState = 4
    /\ reqs[r].finals <= MaxRedeliver
    /\ UNCHANGED srvVars
    /\ Handle(r, [reqs[r] EXCEPT !.finals = @ + 1])

\* saaslet.emit( eventName ) called by the application
EmitCall(eventName) ==
    /\ Idle
    /\ userEmits < MaxEmits
    /\ userEmits' = userEmits + 1
    /\ emission' = Begin(eventName)
    /\ em' = EmitEnter(eventName, 0)
    /\ err' = "none"
    /\ UNCHANGED <<listener, nextReg, removed, halted, emitted, reqVars, widVars>>

\* a == false test: 0 is loosely equal to false, undefined is not
StopsLoosely(ret) == ret \in {"false", "0"}

\* the === false test on what the listener returned
StopsDispatch(ret) == ret = "false"

\* emit returned to its caller: the application (cont = 0), or the transform
\* function of request cont, which goes on to its return and promise.resolve
EmitReturn(cont) ==
    IF cont = 0
    THEN reqs' = reqs /\ err' = "none"
    ELSE reqs' = [reqs EXCEPT ![cont] = FinishTransform(@)]
         /\ err' = FinishError(reqs[cont])

\* a call whose exception is swallowed
NeverThrows(eff) == FALSE

\* the call of the listener raises an exception
Throws(eff) == eff.k = "throw"

\* one pass of the while loop of emit: the listener at index i runs (eff is
\* what it does to the bus, ret what it returns), then the index moves
EmitStep(eff, ret) ==
    /\ em.active
    /\ LET e == em.eventName
           cur == listener[e][em.i + 1]
       IN  /\ emission' = [emission EXCEPT
                    !.calls = Append(@, cur.id),
                    !.stop = IF Throws(eff) THEN "throw"
                             ELSE IF ret = "false" THEN "false" ELSE ""]
           /\ halted' = IF ~Throws(eff) /\ ret = "false"
                        THEN halted \cup {e} ELSE halted
           /\ IF eff.k = "on" THEN nextReg <= MaxRegs ELSE TRUE
           /\ nextReg' = IF eff.k = "on" THEN nextReg + 1 ELSE nextReg
           /\ removed' = IF eff.k = "off"
                         THEN removed \cup Matching(listener, eff.eventName, eff.fn, eff.context)
                         ELSE removed
           /\ listener' \in EffectResults(listener, eff, nextReg)
           /\ IF Throws(eff)
              THEN \* not caught by emit, nor by the transform function calling it
                   /\ em' = NoEmit
                   /\ err' = "ListenerError"
                   /\ reqs' = reqs
              ELSE IF StopsDispatch(ret)
              THEN /\ em' = NoEmit
                   /\ EmitReturn(em.cont)
              ELSE LET i2 == NextIndex(listener', e, em.i, cur.id)
                   IN  IF LoopCondition(listener', e, i2)
                       THEN /\ em' = [em EXCEPT !.i = i2, !.last = cur.id]
                            /\ reqs' = reqs
                            /\ err' = "none"
                       ELSE /\ em' = NoEmit
                            /\ EmitReturn(em.cont)
           /\ UNCHANGED <<emitted, userEmits, widVars, srvVars>>

\* ------------------------------------------------------------- API server
\* The answers of the API server, by operation and by whether the browser
\* has a session: signup and login set the session when they succeed and
\* leave it when they are refused, logout clears it, and the data endpoint
\* answers 200 with the user only within a session.
Answer(status, body, after) == [status |-> status, body |-> body, after |-> after]

ServerAnswers(op, has) ==
    CASE op = "signup" -> {Answer(200, BodyUserId, TRUE), Answer(409, BodyExists, has)}
      [] op = "login" -> {Answer(200, BodyUser, TRUE), Answer(404, BodyNotFound, has)}
      [] op = "logout" -> {Answer(200, BodyObject, FALSE)}
      [] OTHER -> IF has THEN {Answer(200, BodyUser, has)}
                         ELSE {Answer(404, BodyNoSession, has)}

\* an account operation called by the application, a transport object being
\* available
SessionCall(op) ==
    /\ Idle
    /\ Len(reqs) < MaxSessionReqs
    /\ reqs' = Append(reqs, SendRequest(op, "key-a", {1}))
    /\ err' = "none"
    /\ UNCHANGED <<busVars, widVars, srvVars>>

\* the server receives request r and answers it
Serve(r) ==
    /\ r \in 1..Len(reqs)
    /\ reqs[r].sent
    /\ r \notin DOMAIN served
    /\ \E a \in ServerAnswers(reqs[r].op, session) :
          /\ served' = (r :> [status |-> a.status, body |-> a.body, had |-> session]) @@ served
          /\ session' = a.after
    /\ UNCHANGED <<busVars, widVars, reqs, err, store>>

\* the operations on the data endpoint
DataOps == {"set", "get", "getAll", "getInfo"}

\* the pairs a posted body holds, as the server reads them
Posted(text) ==
    IF \E D \in Stores : text = "{\"data\":" \o DataJson(D) \o "}"
    THEN CHOOSE D \in Stores : text = "{\"data\":" \o DataJson(D) \o "}"
    ELSE <<>>

\* the data endpoint: without a session it refuses; a POST merges the posted
\* pairs into the user's data; every answer carries the user
DataAnswer(has, D, postData) ==
    IF ~has THEN [status |-> 404, body |-> BodyNoSession, store |-> D]
    ELSE LET D2 == Posted(postData) @@ D
         IN  [status |-> 200, body |-> UserJson(D2), store |-> D2]

\* the server receives request r, an operation on the data endpoint
ServeData(r) ==
    /\ r \in 1..Len(reqs)
    /\ reqs[r].sent
    /\ r \notin DOMAIN served
    /\ reqs[r].op \in DataOps
    /\ LET a == DataAnswer(session, store, reqs[r].postData)
       IN  /\ served' = (r :> [status |-> a.status, body |-> a.body, had |-> session]) @@ served
           /\ store' = a.store
    /\ UNCHANGED <<busVars, widVars, reqs, err, session>>

\* an account operation called once every earlier one has been awaited
AwaitedCall(op, key) ==
    /\ Idle
    /\ Len(reqs) < MaxAwaited
    /\ \A r \in 1..Len(reqs) : reqs[r].readyState = 4
    /\ reqs' = Append(reqs, SendRequest(op, key, {1}))
    /\ err' = "none"
    /\ UNCHANGED <<busVars, widVars, srvVars>>

\* the answer to request r arrives: the transport object reaches its final
\* ready state
Deliver(r) ==
    /\ r \in DOMAIN served
    /\ Notify(r, 4, served[r].status, served[r].body)

\* ------------------------------------------------------------ Widget, Saaslet
\* the Saaslet instances constructed on the page
Instances == {1, 2}
Num(n) == [t |-> "number", n |-> n]
WidgetV(h) == [t |-> "widget", h |-> h]
NoMessage == [handled |-> FALSE]

BaseUrl == "http://devapp.saaslet.com:8080/"

\* 'wid_' + this.widgetCount
WidgetId(count) == "wid_" \o ToString(count)

\* a widget name that itself holds "://", a host and a slash
SchemeLikeNames == {"a://b/"}

\* iFrame.src.match( /^.+\:\/\/[^\/]+\// )[ 0 ] on baseUrl + '?widgetId=..&
\* standalone=true&name=..&appKey=..': the greedy .+ takes the longest prefix
\* that ends in "://", a run without slashes, and a slash
EmbedOrigin(widgetId, widgetName) ==
    IF widgetName \in SchemeLikeNames
    THEN BaseUrl \o "?widgetId=" \o widgetId \o "&standalone=true&name=" \o widgetName
    ELSE BaseUrl

\* this.widgetCount stays as it is
CountKept(count) == count

\* this.widgetCount++
CountAfterCreate(count) == count + 1

\* new Widget( id, name, parentElement, iFrameUrl, parent ), with the
\* promise createWidget returns and the arguments its load listener keeps
NewWidget(k, widgetId, widgetName, config, css) ==
    [inst |-> k, id |-> widgetId, name |-> widgetName,
     attached |-> TRUE, width |-> Undefined, height |-> Undefined,
     origin |-> EmbedOrigin(widgetId, widgetName),
     config |-> config, css |-> css, loads |-> 0, posts |-> 0, posted |-> <<>>,
     promise |-> PendingPromise]

\* _sendMessage( action, data ): one postMessage to the iframe's window,
\* addressed to this.origin
SendMessage(w, action, data) ==
    [w EXCEPT !.posted = Append(@,
        [source |-> "saaslet-parent", action |-> action, data |-> data,
         targetOrigin |-> w.origin])]

\* the load listener that forgets promise.resolve
LoadListenerSendsOnly(w, h) ==
    LET c == IF w.config # "undefined" THEN SendMessage(w, "setConfig", w.config) ELSE w
    IN  IF c.css # "undefined" THEN SendMessage(c, "setCss", c.css) ELSE c

\* a load listener that resolves first and sends the css before the config
LoadListenerCssFirst(w, h) ==
    LET r == [w EXCEPT !.promise = Settle(@, "resolved", WidgetV(h))]
        c == IF r.css # "undefined" THEN SendMessage(r, "setCss", r.css) ELSE r
    IN  IF c.config # "undefined" THEN SendMessage(c, "setConfig", c.config) ELSE c

\* the load listener of createWidget
LoadListener(w, h) ==
    LET c == IF w.config # "undefined" THEN SendMessage(w, "setConfig", w.config) ELSE w
        d == IF c.css # "undefined" THEN SendMessage(c, "setCss", c.css) ELSE c
    IN  [d EXCEPT !.promise = Settle(@, "resolved", WidgetV(h))]

\* the smaller of the two
Smaller(a, b) == IF a <= b THEN a ELSE b

\* Math.max( a, b )
Max(a, b) == IF a >= b THEN a ELSE b

\* setSize( width, height ), offsetWidth being the parent element's width now
SetSize(w, width, height, offsetWidth) ==
    [w EXCEPT !.width = <<Max(offsetWidth, width)>>, !.height = <<height>>]

\* a registry that keeps the entry
RemoveNothing(A, id) == A

\* _removeWidget( id ): delete this.activeWidgets[ id ]
RemoveWidget(A, id) == [x \in DOMAIN A \ {id} |-> A[x]]

\* a handler that sizes every widget of its instance on any message of a
\* widget, whatever its action and id
OnWidgetMessageAll(k, data, W, A, offsetWidth) ==
    IF Prop(data, "source") # Str("saaslet-widget")
    THEN [widgets |-> W, err |-> "none"]
    ELSE [widgets |-> [h \in 1..Len(W) |->
                          IF W[h].inst = k THEN SetSize(W[h], 1, 3, offsetWidth) ELSE W[h]],
          err |-> "none"]

\* _onWidgetMessage( msg ) of instance k on msg.data = data: the widgets after
\* it, and the exception it threw
OnWidgetMessage(k, data, W, A, offsetWidth) ==
    LET source == Prop(data, "source")
        id == Prop(data, "widgetId")
        size == Prop(data, "data")
        width == Prop(size, "width")
        height == Prop(size, "height")
    IN  IF source.t = "throw" THEN [widgets |-> W, err |-> source.error]
        ELSE IF source # Str("saaslet-widget") THEN [widgets |-> W, err |-> "none"]
        ELSE IF Prop(data, "action") # Str("resize") THEN [widgets |-> W, err |-> "none"]
        ELSE IF ~(id.t = "string" /\ id.s \in DOMAIN A[k])
             THEN \* this.activeWidgets[ id ] is undefined: reading .setSize throws
                  [widgets |-> W, err |-> "TypeError"]
        ELSE IF width.t = "throw" THEN [widgets |-> W, err |-> width.error]
        ELSE LET h == A[k][id.s]
             IN  [widgets |-> [W EXCEPT ![h] = SetSize(@, width.n, height.n, offsetWidth)],
                  err |-> "none"]

\* a createWidget that leaves the registration to the load listener
CreateWidgetUnregistered(k, widgetName, found, config, css) ==
    /\ Idle
    /\ Len(widgets) < MaxWidgets
    /\ found
    /\ widgets' = Append(widgets, NewWidget(k, WidgetId(widgetCount[k]), widgetName,
                                             config, css))
    /\ widgetCount' = [widgetCount EXCEPT ![k] = CountAfterCreate(@)]
    /\ delivered' = NoMessage
    /\ err' = "none"
    /\ UNCHANGED <<activeWidgets, busVars, reqVars>>

\* a createWidget that takes the id before it resolves the element
CreateWidgetTakesIdFirst(k, widgetName, found, config, css) ==
    /\ Idle
    /\ Len(widgets) < MaxWidgets
    /\ delivered' = NoMessage
    /\ widgetCount' = [widgetCount EXCEPT ![k] = CountAfterCreate(@)]
    /\ IF ~found
       THEN /\ err' = "Error"
            /\ UNCHANGED <<widgets, activeWidgets>>
       ELSE LET widgetId == WidgetId(widgetCount[k])
                h == Len(widgets) + 1
            IN  /\ widgets' = Append(widgets, NewWidget(k, widgetId, widgetName, config, css))
                /\ activeWidgets' = [activeWidgets EXCEPT ![k] =
                        [x \in DOMAIN @ \cup {widgetId} |-> IF x = widgetId THEN h ELSE @[x]]]
                /\ err' = "none"
    /\ UNCHANGED <<busVars, reqVars>>

\* saaslet.createWidget( name, elementOrSelector, config, css ) on instance k;
\* found says whether _resolveElement finds the element
CreateWidget(k, widgetName, found, config, css) ==
    /\ Idle
    /\ Len(widgets) < MaxWidgets
    /\ delivered' = NoMessage
    /\ IF ~found
       THEN \* _resolveElement throws before anything is changed
            /\ err' = "Error"
            /\ UNCHANGED <<widgets, activeWidgets, widgetCount>>
       ELSE LET widgetId == WidgetId(widgetCount[k])
                h == Len(widgets) + 1
            IN  /\ widgets' = Append(widgets, NewWidget(k, widgetId, widgetName, config, css))
                /\ widgetCount' = [widgetCount EXCEPT ![k] = CountAfterCreate(@)]
                /\ activeWidgets' = [activeWidgets EXCEPT ![k] =
                        [x \in DOMAIN @ \cup {widgetId} |-> IF x = widgetId THEN h ELSE @[x]]]
                /\ err' = "none"
    /\ UNCHANGED <<busVars, reqVars>>

\* the iframe of widget h fires load
Load(h) ==
    /\ Idle
    /\ h \in 1..Len(widgets)
    /\ widgets[h].attached
    /\ widgets[h].loads < MaxLoads
    /\ widgets' = [widgets EXCEPT ![h] = LoadListener([@ EXCEPT !.loads = @ + 1], h)]
    /\ delivered' = NoMessage
    /\ err' = "none"
    /\ UNCHANGED <<activeWidgets, widgetCount, busVars, reqVars>>

\* widget.destroy(): this.iFrame.remove(); this.parent._removeWidget( this.id )
Destroy(h) ==
    /\ Idle
    /\ h \in 1..Len(widgets)
    /\ widgets' = [widgets EXCEPT ![h].attached = FALSE]
    /\ activeWidgets' = [activeWidgets EXCEPT
            ![widgets[h].inst] = RemoveWidget(@, widgets[h].id)]
    /\ delivered' = NoMessage
    /\ err' = "none"
    /\ UNCHANGED <<widgetCount, busVars, reqVars>>

\* widget.setConfig( data ) / widget.setCss( data ) called by the application;
\* a detached iframe has no contentWindow
WidgetSend(h, action, data) ==
    /\ Idle
    /\ h \in 1..Len(widgets)
    /\ widgets[h].posts < MaxPosts
    /\ IF widgets[h].attached
       THEN /\ widgets' = [widgets EXCEPT ![h] = SendMessage([@ EXCEPT !.posts = @ + 1], action, data)]
            /\ err' = "none"
       ELSE /\ widgets' = [widgets EXCEPT ![h].posts = @ + 1]
            /\ err' = "TypeError"
    /\ delivered' = NoMessage
    /\ UNCHANGED <<activeWidgets, widgetCount, busVars, reqVars>>

\* widget.setSize( width, height ) called by the application
WidgetSetSize(h, width, height, offsetWidth) ==
    /\ Idle
    /\ h \in 1..Len(widgets)
    /\ widgets' = [widgets EXCEPT ![h] = SetSize(@, width, height, offsetWidth)]
    /\ delivered' = NoMessage
    /\ err' = "none"
    /\ UNCHANGED <<activeWidgets, widgetCount, busVars, reqVars>>

\* a message event on the window: the listener of every Saaslet instance
\* runs on it, in the order the instances were constructed
WindowMessage(data, offsetWidth) ==
    /\ Idle
    /\ LET r1 == OnWidgetMessage(1, data, widgets, activeWidgets, offsetWidth)
           r2 == OnWidgetMessage(2, data, r1.widgets, activeWidgets, offsetWidth)
       IN  /\ widgets' = r2.widgets
           /\ delivered' = [handled |-> TRUE, data |-> data,
                            resized |-> {h \in 1..Len(widgets) : r2.widgets[h] # widgets[h]},
                            errs |-> <<r1.err, r2.err>>]
           /\ err' = IF r1.err # "none" THEN r1.err ELSE r2.err
    /\ UNCHANGED <<activeWidgets, widgetCount, busVars, reqVars>>

\* ------------------------------------------------------- specifications
Init ==
    /\ listener = <<>>
    /\ nextReg = 1
    /\ em = NoEmit
    /\ emission = NoEmission
    /\ removed = {}
    /\ halted = {}
    /\ emitted = [e \in Events |-> 0]
    /\ userEmits = 0
    /\ reqs = <<>>
    /\ session = FALSE
    /\ served = <<>>
    /\ store = <<>>
    /\ widgets = <<>>
    /\ activeWidgets = [k \in Instances |-> <<>>]
    /\ widgetCount = [k \in Instances |-> 0]
    /\ delivered = NoMessage
    /\ err = "none"

\* the event bus, driven by the application: every callback and order on one
\* event, and one listener of a second event; listeners return or throw
BusRegs ==
    {<<"login", cb[1], cb[2], o>> : cb \in Callbacks, o \in Orders}
    \cup {<<"logout", "g", "undefined", Undefined>>}
BusEvents == {"login", "logout"}
BusEffects == {eff \in Effects(BusRegs) : eff.k \in {"none", "throw"}}

NextBus ==
    \/ \E x \in BusRegs : On(x[1], x[2], x[3], x[4])
    \/ \E x \in BusRegs : Off(x[1], x[2], x[3])
    \/ \E e \in BusEvents : EmitCall(e)
    \/ \E eff \in BusEffects, ret \in Rets : EmitStep(eff, ret)

SpecBus == Init /\ [][NextBus]_vars

\* the account client: the application listens to the login event (as the
\* tests do), calls account operations, and the transport objects answer
UserRegs == {<<"login", "f", "undefined", Undefined>>}
AccountOps == {"signup", "login", "logout", "set", "get", "isLoggedIn"}
\* which factories construct an object: none, the standard one, legacy ones
NoFactory == {}
StandardFactory == {1}
LegacyFactories == {3, 5}
\* (status, responseText) of a completed request: the API's answers, an
\* empty answer, a gateway's error page
Responses ==
    {<<200, BodyUserId>>, <<200, BodyUser>>, <<200, BodyNull>>, <<200, BodyEmpty>>,
     <<304, BodyUser>>, <<409, BodyExists>>, <<404, BodyNoSession>>, <<500, BodyHtml>>,
     <<200, BodyHtml>>}
UserEffects == {eff \in Effects(UserRegs) : eff.k # "on"}

NextUser ==
    \/ \E x \in UserRegs : nextReg <= MaxUserRegs /\ On(x[1], x[2], x[3], x[4])
    \/ \E x \in UserRegs : Off(x[1], x[2], x[3])
    \/ \E eff \in UserEffects, ret \in Rets : EmitStep(eff, ret)
    \/ \E op \in AccountOps, w \in {NoFactory, StandardFactory} : Call(op, "key-a", w)
    \/ \E r \in 1..MaxReqs, rs \in 2..4, resp \in Responses : Notify(r, rs, resp[1], resp[2])

SpecUser == Init /\ [][NextUser]_vars

\* legacy transport objects, which may repeat the final notification
NextRedeliver ==
    \/ \E x \in UserRegs : nextReg <= MaxUserRegs /\ On(x[1], x[2], x[3], x[4])
    \/ \E eff \in UserEffects, ret \in Rets : EmitStep(eff, ret)
    \/ \E op \in AccountOps : Call(op, "key-a", LegacyFactories)
    \/ \E r \in 1..MaxReqs, rs \in 2..4, resp \in Responses : Notify(r, rs, resp[1], resp[2])
    \/ \E r \in 1..MaxReqs : Redeliver(r)

SpecRedeliver == Init /\ [][NextRedeliver]_vars

\* the widget factory: two Saaslet instances, their widgets, and the
\* messages that arrive on the window
Appearances == {<<"undefined", "undefined">>, <<"{loginButtonText}", "undefined">>,
                <<"{loginButtonText}", "body{}">>}
ResizeIds == {"wid_0", "wid_1", "wid_7"}
Resize(id, width, height) ==
    Obj([source |-> Str("saaslet-widget"), action |-> Str("resize"),
         widgetId |-> Str(id), data |-> Obj([width |-> Num(width), height |-> Num(height)])])
MessageData ==
    {NullV, Str("hello"),
     Obj([action |-> Str("resize"), widgetId |-> Str("wid_0")]),
     Obj([source |-> Str("saaslet-parent"), action |-> Str("resize"),
          widgetId |-> Str("wid_0")]),
     Obj([source |-> Str("saaslet-widget"), action |-> Str("ready")])}
    \cup {Resize(id, 1, 3) : id \in ResizeIds}
OffsetWidths == {2}

NextWidgets ==
    \/ \E k \in Instances, found \in BOOLEAN, a \in Appearances :
            CreateWidget(k, "login-signup", found, a[1], a[2])
    \/ \E h \in 1..MaxWidgets : Load(h)
    \/ \E h \in 1..MaxWidgets : Destroy(h)
    \/ \E h \in 1..MaxWidgets : WidgetSend(h, "setConfig", "{loginButtonText}")
    \/ \E d \in MessageData, ow \in OffsetWidths : WindowMessage(d, ow)

SpecWidgets == Init /\ [][NextWidgets]_vars

\* the outbound messages of one Saaslet instance's widgets: the names the
\* application may pass to createWidget, the load listener's sends and the
\* application's own setConfig and setCss calls
WidgetNames == {"login-signup"} \cup SchemeLikeNames
AppSends == {<<"setConfig", "{signupButtonText}">>, <<"setCss", "a{}">>}

NextEmbed ==
    \/ \E n \in WidgetNames, found \in BOOLEAN, a \in Appearances :
            CreateWidget(1, n, found, a[1], a[2])
    \/ \E h \in 1..MaxWidgets : Load(h)
    \/ \E h \in 1..MaxWidgets : Destroy(h)
    \/ \E h \in 1..MaxWidgets, m \in AppSends : WidgetSend(h, m[1], m[2])

SpecEmbed == Init /\ [][NextEmbed]_vars

\* registration order against listener order: one callback registered on one
\* event with any order, numeric or omitted, and emissions that run through
OrderRegs == {<<"login", "f", "undefined", o>> : o \in {Undefined} \cup {<<n>> : n \in 1..MaxRegs}}

NextOrder ==
    \/ \E x \in OrderRegs : On(x[1], x[2], x[3], x[4])
    \/ EmitCall("login")
    \/ \E ret \in {"undefined", "0"} : EmitStep([k |-> "none"], ret)

SpecOrder == Init /\ [][NextOrder]_vars

\* awaiting login and logout: the application has listeners of both events
\* (two of login at most), which return undefined or false or throw, and
\* the server accepts or refuses
AwaitRegs == {<<"login", "f", "undefined", Undefined>>, <<"login", "g", "undefined", Undefined>>,
              <<"logout", "g", "undefined", Undefined>>}
AwaitResponses == {<<200, BodyUser>>, <<304, BodyUser>>, <<409, BodyExists>>}

NextAwait ==
    \/ \E x \in AwaitRegs : On(x[1], x[2], x[3], x[4])
    \/ \E eff \in BusEffects, ret \in {"undefined", "false"} : EmitStep(eff, ret)
    \/ \E op \in {"login", "logout"} : Call(op, "key-a", StandardFactory)
    \/ \E r \in 1..MaxReqs, resp \in AwaitResponses : Notify(r, 4, resp[1], resp[2])

SpecAwait == Init /\ [][NextAwait]_vars

\* sessions: the application signs up, logs in and out and asks isLoggedIn,
\* several requests may be on their way, and the answers arrive in any order
SessionOps == {"signup", "login", "logout", "isLoggedIn"}

NextSession ==
    \/ \E op \in SessionOps : SessionCall(op)
    \/ \E r \in 1..MaxSessionReqs : Serve(r)
    \/ \E r \in 1..MaxSessionReqs : Deliver(r)

SpecSession == Init /\ [][NextSession]_vars

\* user data: the application logs in, sets keys and reads them back, one
\* awaited call after the other
DataCalls == {<<"login", "key-a">>, <<"set", "key-a">>, <<"set", "key-b">>,
              <<"getAll", "key-a">>, <<"get", "key-a">>}

NextData ==
    \/ \E c \in DataCalls : AwaitedCall(c[1], c[2])
    \/ \E r \in 1..MaxAwaited : r \in 1..Len(reqs) /\ reqs[r].op \notin DataOps /\ Serve(r)
    \/ \E r \in 1..MaxAwaited : ServeData(r)
    \/ \E r \in 1..MaxAwaited : Deliver(r)

SpecData == Init /\ [][NextData]_vars

\* sizes: widgets of one instance are resized by the application and by
\* resize messages, narrower and wider than the parent element is just then
SizeWidths == {1, 3}
SizeHeights == {3, 4}
SizeOffsetWidths == {0, 2}
SizeMessages == {Resize(id, w, ht) : id \in {"wid_0", "wid_1"}, w \in SizeWidths, ht \in SizeHeights}

NextSize ==
    \/ \E found \in BOOLEAN : CreateWidget(1, "login-signup", found, "undefined", "undefined")
    \/ \E h \in 1..MaxWidgets : Destroy(h)
    \/ \E h \in 1..MaxWidgets, w \in SizeWidths, ht \in SizeHeights, ow \in SizeOffsetWidths :
            WidgetSetSize(h, w, ht, ow)
    \/ \E d \in SizeMessages, ow \in SizeOffsetWidths : WindowMessage(d, ow)

SpecSize == Init /\ [][NextSize]_vars

\* ------------------------------------------------------------------ claims
OkStatus(status) == status \in {200, 304}

\* C1: no registration that an off call removed before an emit call began is
\* invoked by that emission.
C1_RemovedNotInvoked ==
    \A k \in 1..Len(emission.calls) :
        emission.calls[k] \notin Ids(emission.removedAtStart)

\* an emission that has invoked a listener of an event from which a
\* registration had been removed before it began
C1_Witness ==
    /\ Len(emission.calls) >= 1
    /\ \E r \in emission.removedAtStart : r.eventName = emission.eventName

\* C2 (as claimed): for signup, login and logout, the number of emissions of
\* the event equals the number of requests of that operation that completed
\* with status 200 or 304.
C2_EmissionPerOkCompletion ==
    \A op \in EmitOps :
        emitted[op] = Cardinality({r \in 1..Len(reqs) :
                          /\ reqs[r].op = op
                          /\ reqs[r].readyState = 4
                          /\ OkStatus(reqs[r].status)})

\* C3 (as claimed): once the completion handler of a request has run, status
\* 200 or 304 has resolved the promise (with the transform's result when
\* there is one, else with the envelope), and any other status has rejected
\* it with the envelope, without a call of the transform.
C3_StatusDecidesOutcome ==
    \A r \in 1..Len(reqs) :
        LET q == reqs[r]
            d == Envelope(q.status, JSONParse(q.responseText))
        IN  (q.readyState = 4 /\ ~(em.active /\ em.cont = r)) =>
                IF OkStatus(q.status)
                THEN /\ q.promise.state = "resolved"
                     /\ q.promise.value = IF q.op \in TransformOps
                                          THEN TransformReturn(q.op, q.key, d)
                                          ELSE d
                ELSE /\ q.promise.state = "rejected"
                     /\ q.promise.value = d
                     /\ q.transforms = 0

\* C4 (as claimed): the promise isLoggedIn returns is never rejected; it is
\* resolved true once the GET completed with 200 or 304, and resolved false
\* once it completed with another status or no request object could be made.
C4_IsLoggedInNeverRejects ==
    \A r \in 1..Len(reqs) :
        LET q == reqs[r]
        IN  q.op = "isLoggedIn" =>
                /\ q.outer.state # "rejected"
                /\ q.xhr = 0 => (q.outer.state = "resolved" /\ q.outer.value = Bool(FALSE))
                /\ q.readyState = 4 =>
                      (q.outer.state = "resolved" /\ q.outer.value = Bool(OkStatus(q.status)))

\* C5: every request promise is settled at most once, whatever ready-state
\* notifications the transport object delivers, repeated final ones included.
C5_SettledAtMostOnce ==
    \A r \in 1..Len(reqs) :
        reqs[r].promise.settles <= 1 /\ reqs[r].outer.settles <= 1

\* a request whose handler ran twice at the final state and called reject
\* both times
C5_Witness ==
    \E r \in 1..Len(reqs) : reqs[r].finals = 2 /\ reqs[r].promise.state = "rejected"

\* C6: a literal false ends the emission at that listener; any other return
\* value lets it go on, so an emission that no false and no throw ended has
\* invoked the whole bucket in order; every emission starts at the first
\* listener; listeners of other events are never invoked, and their buckets
\* are untouched.
C6_Dispatched ==
    LET e == emission.eventName
        bucket == IdsOf(Bucket(listener, e))
        calls == emission.calls
    IN  e # "" =>
          /\ emission.stop = "false" => ~em.active
          /\ Len(calls) <= Len(bucket)
          /\ \A k \in 1..Len(calls) : calls[k] = bucket[k]
          /\ (~em.active /\ emission.stop = "") => calls = bucket
          /\ \A e2 \in Events \ {e} :
                \A k \in 1..Len(calls) : calls[k] \notin BucketIds(listener, e2)

C6_OtherBucketsKept ==
    em.active => \A e2 \in Events \ {em.eventName} :
                    Bucket(listener', e2) = Bucket(listener, e2)

C6_FalseHaltsThisEmissionOnly == []C6_Dispatched /\ [][C6_OtherBucketsKept]_vars

\* an emission that ran through two or more listeners of an event of which
\* an earlier emission was stopped by false, while another event has a listener
C6_Witness ==
    /\ emission.eventName \in halted
    /\ ~em.active
    /\ emission.stop = ""
    /\ Len(emission.calls) >= 2
    /\ \E e2 \in Events \ {emission.eventName} : HasListeners(listener, e2)

\* the last step delivered a window message that carries the widget marker
\* and asks for a resize
ResizeDelivered ==
    /\ delivered.handled
    /\ Prop(delivered.data, "source") = Str("saaslet-widget")
    /\ Prop(delivered.data, "action") = Str("resize")

\* the id a delivered resize message names is registered with instance k
Registered(k) ==
    LET id == Prop(delivered.data, "widgetId")
    IN  id.t = "string" /\ id.s \in DOMAIN activeWidgets[k]

\* C7: a resize message that names a widget id an instance does not have
\* registered, because the widget was destroyed or the id was never issued,
\* raises no error in that instance and changes the size of none of its
\* widgets.
C7_UnknownResizeDropped ==
    ResizeDelivered =>
        \A k \in Instances :
            ~Registered(k) =>
                /\ delivered.errs[k] = "none"
                /\ \A h \in delivered.resized : widgets[h].inst # k

\* C8: a window message whose data does not carry the widget marker as its
\* source, whether the source is another value, is absent, or the data is
\* not an object at all, is ignored by every instance without an error and
\* without a change to any widget.
C8_ForeignMessageIgnored ==
    (/\ delivered.handled
     /\ ~(delivered.data.t = "object"
          /\ Prop(delivered.data, "source") = Str("saaslet-widget")))
        => /\ \A k \in Instances : delivered.errs[k] = "none"
           /\ delivered.resized = {}

\* C9: the promise createWidget returns is pending as long as the iframe has
\* not fired load, is resolved with the Widget object itself once it has,
\* and is never rejected.
C9_ResolvedOnLoad ==
    \A h \in 1..Len(widgets) :
        LET p == widgets[h].promise
        IN  /\ p.state # "rejected"
            /\ widgets[h].loads = 0 => p.state = "pending"
            /\ widgets[h].loads > 0 => p.state = "resolved" /\ p.value = WidgetV(h)

\* one widget has loaded and its promise is resolved while another one,
\* which has not loaded, is still pending
C9_Witness ==
    \E g, h \in 1..Len(widgets) :
        /\ widgets[g].loads > 0 /\ widgets[g].promise.state = "resolved"
        /\ widgets[h].loads = 0 /\ widgets[h].promise.state = "pending"

\* the widgets instance k created before widget h
EarlierOf(h) == {g \in 1..(h - 1) : widgets[g].inst = widgets[h].inst}

C10_Ids ==
    /\ \A h \in 1..Len(widgets) : widgets[h].id = WidgetId(Cardinality(EarlierOf(h)))
    /\ \A k \in Instances :
            widgetCount[k] = Cardinality({h \in 1..Len(widgets) : widgets[h].inst = k})
    /\ \A g, h \in 1..Len(widgets) :
            (g # h /\ widgets[g].inst = widgets[h].inst) => widgets[g].id # widgets[h].id

C10_CounterStep ==
    \A k \in Instances :
        /\ widgetCount'[k] >= widgetCount[k]
        /\ widgetCount'[k] <= widgetCount[k] + 1
        /\ (widgetCount'[k] = widgetCount[k] + 1) <=>
                (Len(widgets') = Len(widgets) + 1 /\ widgets'[Len(widgets')].inst = k)

\* C10: a widget's id is 'wid_' followed by the value the instance's counter
\* had when the widget was created; the counter grows by exactly one with
\* every widget created, is left alone by a failed createWidget and by
\* destroy, and never decreases; so no two widgets of an instance share an
\* id, destroyed ones included.
C10_IdsNeverReused == []C10_Ids /\ [][C10_CounterStep]_vars

\* an instance created a widget, the widget was destroyed, and the instance
\* then created another one
C10_Witness ==
    \E g, h \in 1..Len(widgets) :
        /\ g < h /\ widgets[g].inst = widgets[h].inst
        /\ ~widgets[g].attached /\ widgets[g].id \notin DOMAIN activeWidgets[widgets[g].inst]
        /\ widgets[h].id = "wid_1"

\* C11 (as claimed): every message a widget has posted carries the source
\* tag 'saaslet-parent', the action and the data that were asked for, and is
\* addressed to the scheme+host+port prefix of the embed URL, which is the
\* widget's origin from construction on and is never the wildcard.
C11_OriginScoped ==
    \A h \in 1..Len(widgets) :
        /\ widgets[h].origin = BaseUrl
        /\ \A k \in 1..Len(widgets[h].posted) :
              LET m == widgets[h].posted[k]
              IN  /\ m.source = "saaslet-parent"
                  /\ m.targetOrigin = BaseUrl
                  /\ m.targetOrigin # "*"
                  /\ \/ m.action = "setConfig" /\ m.data \in {widgets[h].config, "{signupButtonText}"}
                     \/ m.action = "setCss" /\ m.data \in {widgets[h].css, "a{}"}
                  /\ m.data # "undefined"

\* the completion handler of request r has run to its end on a 200/304
\* response whose body parsed, and handed it to the transform function
TransformRan(r) ==
    /\ reqs[r].readyState = 4
    /\ OkStatus(reqs[r].status)
    /\ JSONParse(reqs[r].responseText).t # "throw"
    /\ reqs[r].op \in TransformOps
    /\ ~(em.active /\ em.cont = r)

\* C12 (as claimed): once the transform function has run on a 200/304
\* response the promise is settled, and it is rejected when the transform
\* function threw, be it in its own body or in a listener of the event it
\* emits.
C12_TransformThrowRejects ==
    \A r \in 1..Len(reqs) :
        TransformRan(r) =>
            LET q == reqs[r]
                result == TransformReturn(q.op, q.key, Envelope(q.status, JSONParse(q.responseText)))
            IN  /\ q.promise.state # "pending"
                /\ result.t = "throw" => q.promise.state = "rejected"

\* C13 (as claimed): when every request-object constructor throws, the
\* caller of get or post receives a promise, that promise is rejected with
\* the construction error, and nothing was opened or sent.
C13_ConstructionFailureRejects ==
    \A r \in 1..Len(reqs) :
        LET q == reqs[r]
        IN  q.xhr = 0 =>
                /\ q.returned = "promise"
                /\ q.promise.state = "rejected"
                /\ q.promise.value = Str("Could not create XMLHTTPObject")
                /\ ~q.opened /\ ~q.sent

\* C14 (as claimed): a request that completed with status 200 or 304 and a
\* non-empty body that is not JSON has its promise rejected with the parse
\* error.
C14_ParseErrorRejects ==
    \A r \in 1..Len(reqs) :
        LET q == reqs[r]
        IN  (/\ q.readyState = 4
             /\ OkStatus(q.status)
             /\ q.responseText # BodyEmpty
             /\ JSONParse(q.responseText).t = "throw")
                => /\ q.promise.state = "rejected"
                   /\ q.promise.value = JSONParse(q.responseText)

\* what off( eventName, fn, context ) is to leave of the listener map
OffExpected(eventName, fn, context) ==
    LET Kept(r) == ~(r.fn = fn /\ r.context = context)
    IN  /\ \A e \in Events :
              Bucket(listener', e) = IF e = eventName
                                     THEN SelectSeq(Bucket(listener, e), Kept)
                                     ELSE Bucket(listener, e)
        /\ (\A k \in 1..Len(Bucket(listener, eventName)) : Kept(Bucket(listener, eventName)[k]))
              => listener' = listener

\* C15: an off call removes from the event's bucket exactly the
\* registrations whose callback and context are both the ones given, every
\* duplicate of them in that one call, keeps the others in their order,
\* leaves the buckets of other events alone, and changes nothing when
\* nothing matches.
C15_OffRemovesExactly ==
    [][\A x \in BusRegs : Off(x[1], x[2], x[3]) => OffExpected(x[1], x[2], x[3])]_vars

\* two registrations of the same callback and context are gone from an
\* event's bucket while a third, of the same callback with another context,
\* is still there
C15_Witness ==
    /\ Idle
    /\ \E a, b \in removed : a.id # b.id /\ a.eventName = "login" /\ b.eventName = "login"
    /\ \E k \in 1..Len(Bucket(listener, "login")) :
            /\ Bucket(listener, "login")[k].fn = "f"
            /\ Bucket(listener, "login")[k].context = "ctxA"
    /\ BucketIds(listener, "login") \cap Ids(removed) = {}
    /\ nextReg = 4

\* every registration of the bucket has a numeric order, no two the same
DistinctNumeric(s) ==
    /\ \A k \in 1..Len(s) : s[k].order # Undefined
    /\ \A j, k \in 1..Len(s) : j # k => s[j].order # s[k].order

\* C16: a bucket whose listeners all have numeric, pairwise different orders
\* is in ascending order, however the on calls were ordered, and an emission
\* that runs to its end invokes the listeners in that order.
C16_AscendingOrder ==
    /\ \A e \in DOMAIN listener :
          DistinctNumeric(listener[e]) =>
              \A j, k \in 1..Len(listener[e]) :
                  j < k => listener[e][j].order[1] < listener[e][k].order[1]
    /\ (/\ emission.eventName # ""
        /\ ~em.active
        /\ emission.stop = ""
        /\ DistinctNumeric(Bucket(listener, emission.eventName)))
          => emission.calls = IdsOf(Bucket(listener, emission.eventName))

\* three listeners with different numeric orders, registered in another
\* order than the ascending one, have all been invoked by one emission
C16_Witness ==
    /\ ~em.active
    /\ Len(emission.calls) = 3
    /\ DistinctNumeric(Bucket(listener, "login"))
    /\ emission.calls # <<1, 2, 3>>

\* the widgets of instance k that were created and not destroyed
Live(k) == {h \in 1..Len(widgets) : widgets[h].inst = k /\ widgets[h].attached}

C17_Registry ==
    \A k \in Instances :
        /\ DOMAIN activeWidgets[k] = {widgets[h].id : h \in Live(k)}
        /\ \A h \in Live(k) : activeWidgets[k][widgets[h].id] = h

C17_DestroyStep ==
    \A h \in 1..Len(widgets) :
        (widgets[h].attached /\ ~widgets'[h].attached) =>
            /\ widgetCount' = widgetCount
            /\ Len(widgets') = Len(widgets)
            /\ \A g \in 1..Len(widgets) \ {h} : widgets'[g] = widgets[g]
            /\ \A k \in Instances :
                  DOMAIN activeWidgets'[k] =
                      DOMAIN activeWidgets[k] \ (IF k = widgets[h].inst THEN {widgets[h].id} ELSE {})

\* C17: the registry of an instance holds exactly its widgets that were
\* created and not destroyed, each under its own id; a destroy detaches the
\* one iframe, removes the one entry, and leaves every other widget, every
\* other entry and the counter as they were.
C17_RegistryIsLiveWidgets == []C17_Registry /\ [][C17_DestroyStep]_vars

\* of two widgets of one instance the first was destroyed and the second is
\* still registered
C17_Witness ==
    \E g, h \in 1..Len(widgets) :
        /\ widgets[g].inst = widgets[h].inst
        /\ ~widgets[g].attached
        /\ widgets[h].attached
        /\ DOMAIN activeWidgets[widgets[h].inst] = {widgets[h].id}

\* C18: a createWidget call whose selector matches nothing throws an Error
\* to its caller and changes nothing: no Widget and no promise is made, the
\* counter and the registry are as before, no iframe is attached.
C18_FailedCreateChangesNothing ==
    [][err' = "Error" => UNCHANGED <<widgets, activeWidgets, widgetCount>>]_vars

\* createWidget has thrown on an instance that created a widget before, and
\* its counter is still one
C18_Witness ==
    /\ err = "Error"
    /\ \E k \in Instances : widgetCount[k] = 1 /\ Live(k) # {}

\* this step resolves the promise of request r, a signup, login or logout
ResolvesNow(r) ==
    /\ reqs[r].op \in EmitOps
    /\ reqs[r].promise.state = "pending"
    /\ reqs'[r].promise.state = "resolved"

\* C19 (as claimed): when the promise of a signup, login or logout is
\* resolved, the emission of its event is over and has invoked every
\* listener of the event.
C19_AllListenersBeforeResolve ==
    [][\A r \in 1..Len(reqs) :
          ResolvesNow(r) =>
              /\ emission'.eventName = reqs[r].op
              /\ ~em'.active
              /\ emission'.calls = IdsOf(Bucket(listener', reqs[r].op))]_vars

\* C19 (amended): when the promise of a signup, login or logout is resolved,
\* the emission of its event has been made and is over: it has invoked the
\* listeners of the event in bucket order, all of them unless one returned
\* false, in which case the ones after it are not invoked at all.
C19_EmissionBeforeResolve ==
    [][\A r \in 1..Len(reqs) :
          ResolvesNow(r) =>
              LET calls == emission'.calls
                  bucket == IdsOf(Bucket(listener', reqs[r].op))
              IN  /\ emission'.eventName = reqs[r].op
                  /\ ~em'.active
                  /\ emitted'[reqs[r].op] = emitted[reqs[r].op]
                        + (IF Len(bucket) = 0 THEN 1 ELSE 0)
                  /\ emitted'[reqs[r].op] >= 1
                  /\ emission'.stop # "throw"
                  /\ Len(calls) <= Len(bucket)
                  /\ \A k \in 1..Len(calls) : calls[k] = bucket[k]
                  /\ emission'.stop = "" => calls = bucket]_vars

\* a login promise is resolved right after an emission that invoked both
\* listeners of login
C19_Witness ==
    /\ ~em.active
    /\ emission.eventName = "login"
    /\ emission.stop = ""
    /\ Len(emission.calls) = 2
    /\ \E r \in 1..Len(reqs) :
          /\ reqs[r].op = "login"
          /\ reqs[r].promise.state = "resolved"
          /\ reqs[r].transforms = 1

\* C20: every isLoggedIn call makes a GET request of its own, and once the
\* answer has arrived its promise is resolved with true if the server had a
\* session when it served that request and with false if it had none,
\* whatever earlier calls returned; until then the promise is pending.
C20_IsLoggedInFollowsSession ==
    \A r \in 1..Len(reqs) :
        LET q == reqs[r]
        IN  q.op = "isLoggedIn" =>
              /\ q.method = "GET" /\ q.sent /\ q.postData = ""
              /\ IF q.readyState = 4
                 THEN /\ r \in DOMAIN served
                      /\ q.outer.state = "resolved"
                      /\ q.outer.value = Bool(served[r].had)
                 ELSE q.outer.state = "pending"

\* a first isLoggedIn call was answered true and, after a logout, a later
\* one was answered false
C20_Witness ==
    \E a, b \in 1..Len(reqs) :
        /\ a < b
        /\ reqs[a].op = "isLoggedIn" /\ reqs[a].outer.value = Bool(TRUE)
        /\ reqs[b].op = "isLoggedIn" /\ reqs[b].outer.value = Bool(FALSE)
        /\ reqs[b].outer.state = "resolved"
        /\ \E c \in 1..Len(reqs) : reqs[c].op = "logout" /\ reqs[c].promise.state = "resolved"

\* the keys that set calls before request r have stored: the calls that
\* were answered 200
SetBefore(r) ==
    {reqs[j].key : j \in {j \in 1..(r - 1) : reqs[j].op = "set" /\ reqs[j].status = 200}}

\* C21: every set posts the single pair of its own key and resolves with
\* the whole envelope; a getAll that the server answers 200 resolves with
\* exactly the pairs of the set calls awaited before it, in whatever order
\* they were made, and a get with the value of its key.
C21_SetThenRead ==
    \A r \in 1..Len(reqs) :
        LET q == reqs[r]
            stored == [k \in SetBefore(r) |-> Str(ValueOf(k))]
        IN  /\ q.op = "set" =>
                /\ q.method = "POST"
                /\ q.postData = "{\"data\":" \o DataJson(q.key :> ValueOf(q.key)) \o "}"
                /\ (q.readyState = 4 /\ q.status = 200) =>
                      /\ q.promise.state = "resolved"
                      /\ q.promise.value = Envelope(200, JSONParse(q.responseText))
            /\ (q.op = "getAll" /\ q.readyState = 4 /\ q.status = 200) =>
                /\ q.promise.state = "resolved"
                /\ q.promise.value = Obj(stored)
            /\ (q.op = "get" /\ q.readyState = 4 /\ q.status = 200) =>
                /\ q.promise.state = "resolved"
                /\ q.promise.value = IF q.key \in SetBefore(r) THEN stored[q.key] ELSE UndefinedV

\* key-b was set before key-a, then getAll resolved with both pairs and
\* get( 'key-a' ) with its value
C21_Witness ==
    \E i, j, m, n \in 1..Len(reqs) :
        /\ i < j /\ j < m /\ j < n
        /\ reqs[i].op = "set" /\ reqs[i].key = "key-b" /\ reqs[i].status = 200
        /\ reqs[j].op = "set" /\ reqs[j].key = "key-a" /\ reqs[j].status = 200
        /\ reqs[m].op = "getAll"
        /\ reqs[m].promise.value = Obj([k \in Keys |-> Str(ValueOf(k))])
        /\ reqs[n].op = "get" /\ reqs[n].promise.value = Str("val-a")

\* widget h has the height given and the larger of the width given and the
\* parent's width
SizedTo(h, w, ht, ow) ==
    /\ widgets'[h].height = <<ht>>
    /\ widgets'[h].width = <<IF w >= ow THEN w ELSE ow>>
    /\ widgets'[h].width[1] >= ow
    /\ widgets'[h].width[1] >= w

\* C22: a setSize call, made by the application or by the message handler
\* for a resize message that names a registered widget, leaves the iframe
\* with the height given and with the larger of the width given and the
\* width the parent element has at that moment.
C22_WidthFlooredAtParent ==
    [][/\ \A h \in 1..Len(widgets), w \in SizeWidths, ht \in SizeHeights, ow \in SizeOffsetWidths :
              WidgetSetSize(h, w, ht, ow) => SizedTo(h, w, ht, ow)
       /\ \A id \in {"wid_0", "wid_1"}, w \in SizeWidths, ht \in SizeHeights, ow \in SizeOffsetWidths :
              (WindowMessage(Resize(id, w, ht), ow) /\ id \in DOMAIN activeWidgets[1])
                  => SizedTo(activeWidgets[1][id], w, ht, ow)]_vars

\* a resize message asked for a width below the parent's and the widget
\* has the parent's width, while another widget was given a wider one
C22_Witness ==
    /\ delivered.handled
    /\ Prop(Prop(delivered.data, "data"), "width") = Num(1)
    /\ \E h \in delivered.resized : widgets[h].width = <<2>>
    /\ \E g \in 1..Len(widgets) : widgets[g].width = <<3>>

\* ---- C23
\* the data values an application posts: the falsy and the empty ones, whose
\* JSON texts are the shortest, and undefined, which has no JSON text
PostValues == {NullV, Bool(FALSE), Bool(TRUE), Num(0), Num(1), Str(""), Str("a"),
               Obj(<<>>), EmptyArray, UndefinedV}
Serializable == PostValues \ {UndefinedV}

NextTransport ==
    \/ GetCall
    \/ \E data \in PostValues : PostCall(data)
    \/ \E r \in 1..MaxReqs, rs \in 2..4, resp \in Responses : Notify(r, rs, resp[1], resp[2])

SpecTransport == Init /\ [][NextTransport]_vars

LastRequest == reqs'[Len(reqs')]

\* C23: every request that was sent had withCredentials set when send was
\* called and carries the JSON content type; get sends GET with no body, and
\* post of a JSON-serializable value sends POST with the JSON text as body
C23_CredentialedJson ==
    /\ [](\A r \in 1..Len(reqs) : reqs[r].sent =>
               reqs[r].credentialed /\ reqs[r].header = "application/json")
    /\ [][GetCall => /\ LastRequest.sent
                     /\ LastRequest.method = "GET"
                     /\ LastRequest.body = ""]_vars
    /\ [][\A data \in Serializable : PostCall(data) =>
               /\ LastRequest.sent
               /\ LastRequest.method = "POST"
               /\ LastRequest.body = JSONStringify(data)
               /\ LastRequest.body # ""]_vars

\* a get and a post of null have both been sent
C23_Witness ==
    \E r, q \in 1..Len(reqs) :
        /\ reqs[r].op = "get:" /\ reqs[r].sent /\ reqs[r].method = "GET"
        /\ reqs[q].op = "post:" /\ reqs[q].sent /\ reqs[q].body = "null"
        /\ reqs[q].method = "POST"

\* ---- C24
\* listeners of one event, two callbacks, each registered any number of times
ReRegs == {<<"login", fn, "undefined", <<n>>>> : fn \in Fns, n \in 1..MaxRegs}

\* what a listener does while it runs: nothing, or one off call for the event
ReOffs == {[k |-> "none"]}
          \cup {[k |-> "off", eventName |-> "login", fn |-> fn, context |-> "undefined"] :
                  fn \in Fns}

NextReentrant ==
    \/ \E x \in ReRegs : On(x[1], x[2], x[3], x[4])
    \/ EmitCall("login")
    \/ \E eff \in ReOffs : EmitStep(eff, "undefined")

SpecReentrant == Init /\ [][NextReentrant]_vars

\* the emit call has run to the end of its loop
Completed == emission.eventName # "" /\ ~em.active /\ emission.stop = ""

\* how often the emission invoked registration id
Invocations(id) == Cardinality({k \in 1..Len(emission.calls) : emission.calls[k] = id})

StartIds == {emission.start[k] : k \in 1..Len(emission.start)}

\* C24: when listeners call off for registrations of the event during its
\* emission, every registration that was there when the emission began and
\* has not been removed is invoked exactly once by that emission.
C24_KeptInvokedOnce ==
    Completed =>
        \A id \in StartIds :
            [id |-> id, eventName |-> emission.eventName] \notin removed
                => Invocations(id) = 1

\* ---- C25
\* the off call of a listener that removes itself: its own callback and context
SelfOff ==
    LET cur == listener[em.eventName][em.i + 1]
    IN  [k |-> "off", eventName |-> em.eventName, fn |-> cur.fn, context |-> cur.context]

\* every callback/context pair is registered once; a running listener does
\* nothing to the bus or removes itself
NextSelfOff ==
    \/ \E c \in Callbacks, o \in Orders :
          /\ Matching(listener, "login", c[1], c[2]) = {}
          /\ On("login", c[1], c[2], o)
    \/ EmitCall("login")
    \/ EmitStep([k |-> "none"], "undefined")
    \/ em.active /\ EmitStep(SelfOff, "undefined")

SpecSelfOff == Init /\ [][NextSelfOff]_vars

\* C25: when a listener removes only itself while it runs, the index stays,
\* the listener that followed it is the next one invoked (or the emission
\* ends if none followed), and an emission that runs to its end has invoked
\* every listener it started with exactly once, in their order.
C25_SelfRemovalTolerated ==
    /\ [](Completed => emission.calls = emission.start)
    /\ [][(em.active /\ EmitStep(SelfOff, "undefined")) =>
            LET bucket == listener[em.eventName]
            IN  IF em.i + 2 <= Len(bucket)
                THEN /\ em'.active
                     /\ em'.i = em.i
                     /\ listener'[em.eventName][em'.i + 1].id = bucket[em.i + 2].id
                ELSE ~em'.active]_vars

\* an emission over three listeners has run to its end after the first and
\* the second listener removed themselves
C25_Witness ==
    /\ Completed
    /\ Len(emission.start) = 3
    /\ {[id |-> emission.start[k], eventName |-> emission.eventName] : k \in 1..2}
          \subseteq removed
    /\ emission.calls = emission.start

\* ---- C26
\* C26: in every bucket a listener registered without an order stands after
\* every listener registered with a numeric order, and an emission that runs
\* to its end invokes them in that sequence.
C26_UnorderedLast ==
    /\ \A e \in DOMAIN listener :
          \A j, k \in 1..Len(listener[e]) :
              (listener[e][j].order = Undefined /\ listener[e][k].order # Undefined)
                  => j > k
    /\ Completed => emission.calls = emission.start

\* ---- C27
\* what a listener does while it runs: nothing, or one on call for the event
ReOns == {[k |-> "none"]}
         \cup {[k |-> "on", eventName |-> x[1], fn |-> x[2], context |-> x[3],
                 order |-> x[4]] : x \in ReRegs}

NextGrow ==
    \/ \E x \in ReRegs : On(x[1], x[2], x[3], x[4])
    \/ EmitCall("login")
    \/ \E eff \in ReOns : EmitStep(eff, "undefined")

SpecGrow == Init /\ [][NextGrow]_vars

\* C27: when listeners register listeners for the event during its
\* emission, no listener that was there when the emission began is invoked
\* more than once by it.
C27_StartInvokedAtMostOnce ==
    emission.eventName # "" => \A id \in StartIds : Invocations(id) <= 1

\* ---- C28
\* widget h was created, is not destroyed, and its iframe has not fired load
BeforeLoad(h) == widgets[h].attached /\ widgets[h].loads = 0

\* C28: a widget is in its instance's registry under its id from the return
\* of createWidget on, before load, and a resize message with that id that
\* arrives before load sets the size of that widget.
C28_RegisteredBeforeLoad ==
    /\ [](\A h \in 1..Len(widgets) :
              BeforeLoad(h) =>
                  /\ widgets[h].id \in DOMAIN activeWidgets[widgets[h].inst]
                  /\ activeWidgets[widgets[h].inst][widgets[h].id] = h)
    /\ [][\A id \in ResizeIds, ow \in OffsetWidths, h \in 1..Len(widgets) :
              (WindowMessage(Resize(id, 1, 3), ow) /\ BeforeLoad(h) /\ widgets[h].id = id)
                  => widgets'[h] = SetSize(widgets[h], 1, 3, ow)]_vars

\* a widget that has not loaded has the size a resize message gave it
C28_Witness ==
    \E h \in 1..Len(widgets) :
        /\ BeforeLoad(h)
        /\ ResizeDelivered
        /\ h \in delivered.resized
        /\ widgets[h].height = <<3>>
        /\ widgets[h].promise.state = "pending"

\* ---- C29
\* the action and data of the messages posted to widget w from the n+1-th on
PostedFrom(w, n) == [k \in 1..(Len(w.posted) - n) |->
                        <<w.posted[n + k].action, w.posted[n + k].data>>]

\* what the load listener is to send for widget w
LoadSends(w) ==
    (IF w.config # "undefined" THEN <<(<<"setConfig", w.config>>)>> ELSE <<>>)
    \o (IF w.css # "undefined" THEN <<(<<"setCss", w.css>>)>> ELSE <<>>)

\* C29: the load listener sends setConfig if a config was given to
\* createWidget, then setCss if a css was given, nothing else, and the promise
\* is resolved when it has run (a later load sends the same again); no other step than load and the application's
\* own setConfig/setCss calls posts a message to a widget, so none is sent by
\* createWidget before load.
C29_SendsOnLoadThenResolves ==
    /\ [][\A h \in 1..Len(widgets) :
              Load(h) =>
                  /\ PostedFrom(widgets'[h], Len(widgets[h].posted)) = LoadSends(widgets[h])
                  /\ SubSeq(widgets'[h].posted, 1, Len(widgets[h].posted)) = widgets[h].posted
                  /\ widgets'[h].promise.state = "resolved"]_vars
    /\ [][\A h \in 1..Len(widgets) :
              widgets'[h].posted # widgets[h].posted =>
                  Load(h) \/ \E m \in AppSends : WidgetSend(h, m[1], m[2])]_vars
    /\ [](\A h \in 1..Len(widgets) :
              widgets[h].loads = 0 =>
                  /\ Len(widgets[h].posted) <= widgets[h].posts
                  /\ widgets[h].promise.state = "pending")

\* one widget created with a config and a css has loaded and was sent
\* setConfig, then setCss; another created with neither has loaded and was
\* sent nothing
C29_Witness ==
    \E h, g \in 1..Len(widgets) :
        /\ widgets[h].loads = 1 /\ widgets[h].posts = 0
        /\ PostedFrom(widgets[h], 0) = <<(<<"setConfig", "{loginButtonText}">>),
                                         (<<"setCss", "body{}">>)>>
        /\ widgets[h].promise.state = "resolved"
        /\ widgets[g].loads = 1 /\ widgets[g].config = "undefined"
        /\ widgets[g].css = "undefined" /\ widgets[g].posted = <<>>
        /\ widgets[g].promise.state = "resolved"

\* ---- C30
\* C30: a listener that throws ends the emit call with its exception, which
\* emit does not catch; the listeners after it are not invoked by that
\* emission, and the registry is as it was.
C30_ThrowPropagates ==
    /\ [][\A ret \in Rets :
              EmitStep([k |-> "throw"], ret) =>
                  /\ err' = "ListenerError"
                  /\ ~em'.active
                  /\ listener' = listener
                  /\ emission'.calls = Append(emission.calls, listener[em.eventName][em.i + 1].id)]_vars
    /\ [](emission.stop = "throw" =>
              /\ ~em.active
              /\ err = "ListenerError"
              /\ emission.calls = SubSeq(emission.start, 1, Len(emission.calls))
              /\ IdsOf(Bucket(listener, emission.eventName)) = emission.start)

\* the first of three listeners threw: it is the only one invoked and the
\* three are still registered
C30_Witness ==
    /\ emission.stop = "throw"
    /\ Len(emission.start) = 3
    /\ Len(emission.calls) = 1
    /\ Len(Bucket(listener, emission.eventName)) = 3
    /\ err = "ListenerError"

\* ---- C31
\* the names an application asks hasListeners about
QueriedNames == BusEvents \cup DOMAIN InheritedLength

\* C31: no event name maps to an empty listener list, and hasListeners(e)
\* is truthy exactly when at least one registration for e exists.
C31_HasListenersIffRegistered ==
    /\ \A e \in DOMAIN listener : Len(listener[e]) > 0
    /\ \A e \in QueriedNames :
          HasListeners(listener, e) <=> (e \in DOMAIN listener /\ Len(listener[e]) > 0)

\* ---- C32
\* what the promise of request q can be settled with: the envelope of its
\* own status and body, or what its own transform function makes of it
OwnOutcomes(q) ==
    LET d == Envelope(q.status, JSONParse(q.responseText))
    IN  {d, TransformReturn(q.op, q.key, d)}

\* C32: completions of requests in flight arrive in any order; a completion
\* changes only its own request, settles its promise with its own status
\* and body, and emits only its own operation's event; no step changes a
\* request other than the one whose notification or emission it belongs to.
C32_CompletionsIndependent ==
    /\ [](\A r \in 1..Len(reqs) :
              (reqs[r].xhr # 0 /\ reqs[r].promise.state # "pending") =>
                  /\ reqs[r].readyState = 4
                  /\ reqs[r].promise.settles = 1
                  /\ reqs[r].promise.value \in OwnOutcomes(reqs[r]))
    /\ [][\A r \in 1..Len(reqs), rs \in 2..4, resp \in Responses :
              Notify(r, rs, resp[1], resp[2]) =>
                  /\ \A q \in 1..Len(reqs) \ {r} : reqs'[q] = reqs[q]
                  /\ \A e \in Events : emitted'[e] # emitted[e] => e = reqs[r].op]_vars
    /\ [][\A q \in 1..Len(reqs) :
              reqs'[q] # reqs[q] =>
                  \/ em.active /\ em.cont = q
                  \/ \E rs \in 2..4, resp \in Responses : Notify(q, rs, resp[1], resp[2])]_vars

\* two requests are in flight together and the second one was answered
\* first: it is settled with its own answer, the first is still pending
C32_Witness ==
    /\ Len(reqs) = 2
    /\ reqs[1].op = "signup" /\ reqs[2].op = "login"
    /\ reqs[1].sent /\ reqs[1].readyState < 4
    /\ reqs[1].promise.state = "pending"
    /\ reqs[2].promise.state = "resolved"
    /\ reqs[2].promise.value = Envelope(200, JSONParse(BodyUser))
    /\ emitted["login"] = 1 /\ emitted["signup"] = 0

\* ---- C33
\* C33: a resize message, which one widget of one instance sent, changes
\* the size of widgets of one instance only.
C33_ResizeStaysInInstance ==
    ResizeDelivered =>
        \A h, g \in delivered.resized : widgets[h].inst = widgets[g].inst

\* ---- C34
\* the account operations that have no event
QuietOps == {"set", "get", "getAll", "isLoggedIn", "getInfo", "changeEmail",
             "changePassword"}

\* an application that has a login listener and widgets, and calls the
\* operations without event besides login
NextQuiet ==
    \/ \E x \in UserRegs : nextReg <= MaxUserRegs /\ On(x[1], x[2], x[3], x[4])
    \/ CreateWidget(1, "login-signup", TRUE, "undefined", "undefined")
    \/ \E op \in QuietOps \cup {"login"}, w \in {NoFactory, StandardFactory} :
            Call(op, "key-a", w)
    \/ \E r \in 1..MaxReqs, rs \in 2..4, resp \in Responses : Notify(r, rs, resp[1], resp[2])
    \/ \E eff \in UserEffects, ret \in Rets : EmitStep(eff, ret)

SpecQuiet == Init /\ [][NextQuiet]_vars

\* no emit call, no change of the listener map, the widgets, the widget
\* registry or the widget counter
Quiet == UNCHANGED <<listener, nextReg, em, emission, emitted, halted, removed,
                     widgets, activeWidgets, widgetCount>>

\* C34: calling set, get, getAll, isLoggedIn, getInfo, changeEmail or
\* changePassword, and any notification of such a request, whether it
\* completes with success, with an error status or not at all, emits no
\* event and leaves the listener map, the widget registry and the widget
\* counter as they were.
C34_QuietOperations ==
    [][/\ \A op \in QuietOps, w \in {NoFactory, StandardFactory} :
              Call(op, "key-a", w) => Quiet
       /\ \A r \in 1..Len(reqs), rs \in 2..4, resp \in Responses :
              (Notify(r, rs, resp[1], resp[2]) /\ reqs[r].op \in QuietOps) => Quiet]_vars

\* with a login listener registered and a widget created, a getInfo has
\* succeeded and a changeEmail has failed, and nothing was emitted
C34_Witness ==
    /\ HasListeners(listener, "login")
    /\ Len(widgets) > 0
    /\ \E r, q \in 1..Len(reqs) :
          /\ reqs[r].op = "getInfo" /\ reqs[r].promise.state = "resolved"
          /\ reqs[q].op = "changeEmail" /\ reqs[q].promise.state = "rejected"
          /\ reqs[q].xhr # 0
    /\ \A e \in Events : emitted[e] = 0
    /\ emission = NoEmission

\* ---- C35
\* widget h is registered, with its own instance, under the id that message
\* data carries
Carries(data, h) ==
    LET id == Prop(data, "widgetId")
        A == activeWidgets[widgets[h].inst]
    IN  id.t = "string" /\ id.s \in DOMAIN A /\ A[id.s] = h

FromWidget(data) == data.t = "object" /\ Prop(data, "source") = Str("saaslet-widget")

\* C35: a resize message of a widget gives the registered widget whose id
\* it carries the size setSize computes from its width and height and
\* changes no other widget; a message of a widget with another action
\* changes no widget and raises no error; neither changes the registry or
\* the counter.
C35_ResizeFrame ==
    [][\A data \in MessageData, ow \in OffsetWidths :
          (WindowMessage(data, ow) /\ FromWidget(data)) =>
              /\ activeWidgets' = activeWidgets
              /\ widgetCount' = widgetCount
              /\ Len(widgets') = Len(widgets)
              /\ IF Prop(data, "action") = Str("resize")
                 THEN \A h \in 1..Len(widgets) :
                          widgets'[h] = IF Carries(data, h)
                                        THEN SetSize(widgets[h],
                                                     Prop(Prop(data, "data"), "width").n,
                                                     Prop(Prop(data, "data"), "height").n, ow)
                                        ELSE widgets[h]
                 ELSE widgets' = widgets /\ err' = "none"]_vars

\* of two widgets of one instance, the one a resize message named has the
\* new size and the other has none
C35_Witness ==
    /\ ResizeDelivered
    /\ \E h, g \in 1..Len(widgets) :
          /\ widgets[h].inst = widgets[g].inst
          /\ Carries(delivered.data, h)
          /\ delivered.resized = {h}
          /\ widgets[h].height = <<3>>
          /\ widgets[g].attached /\ widgets[g].height = Undefined

\* ---- C36
\* C36: the promise of a request that has a transport object is pending as
\* long as the ready state is below 4, so for ever if 4 is never reached; a
\* notification with an earlier ready state settles nothing, emits nothing
\* and raises nothing; an account event is emitted only by a notification
\* with ready state 4.
C36_OnlyFinalStateSettles ==
    /\ [](\A r \in 1..Len(reqs) :
              (reqs[r].xhr # 0 /\ reqs[r].readyState < 4) =>
                  /\ reqs[r].promise.state = "pending"
                  /\ reqs[r].outer.state \in {"pending", "none"}
                  /\ reqs[r].transforms = 0)
    /\ [][\A r \in 1..Len(reqs), rs \in 2..3, resp \in Responses :
              Notify(r, rs, resp[1], resp[2]) =>
                  /\ reqs'[r].promise = reqs[r].promise
                  /\ reqs'[r].outer = reqs[r].outer
                  /\ reqs'[r].readyState = rs
                  /\ err' = "none"
                  /\ UNCHANGED <<emitted, emission, em, listener>>]_vars
    /\ [][\A e \in Events :
              emitted'[e] # emitted[e] =>
                  \E r \in 1..Len(reqs), resp \in Responses : Notify(r, 4, resp[1], resp[2])]_vars

\* a login request went through the ready states 2 and 3 and is pending
\* with nothing emitted, while another login, which reached 4, is resolved
\* and its event emitted
C36_Witness ==
    \E r, q \in 1..Len(reqs) :
        /\ reqs[r].op = "login" /\ reqs[r].sent /\ reqs[r].readyState = 3
        /\ reqs[r].promise.state = "pending"
        /\ reqs[q].op = "login" /\ reqs[q].readyState = 4
        /\ reqs[q].promise.state = "resolved"
        /\ emitted["login"] = 1

====
